---- MODULE Spec2Model ----
(***************************************************************************)
(* Elastic rescaling of Ray Tune trials (adaptdl_ray).                     *)
(*                                                                         *)
(*   - the resource-bundle codec of AdaptDLJobMixin (allocation_to_pgf,    *)
(*     pgf_to_allocation, _pgf_to_num_replicas), modelled on strings that  *)
(*     are sequences of characters so that the "node:<id>" key is really   *)
(*     formatted and really parsed;                                        *)
(*   - the lifecycle transitions of AdaptDLTrial (create_from, _clone_from,*)
(*     _requeue, pause), one step per statement that can raise or that     *)
(*     changes the trial runner, together with the steps of the host       *)
(*     runtime (Tune) they depend on;                                      *)
(*   - the allocators of the scheduler tests (IncrAllocator,               *)
(*     PausingAllocator) and the scheduling cycles that call them.         *)
(***************************************************************************)
EXTENDS Integers, Sequences, FiniteSets, TLC

VARIABLES
    device,         \* config.default_device(): CPU or GPU, fixed for a run
    trials,         \* every Trial object ever constructed, by object index
    runner_trials,  \* trial_runner._trials: a list of object indices
    live_trials,    \* trial_runner._live_trials: a set of object indices
    in_use,         \* the trials pg_manager.trial_in_use reports as in use
    now,            \* the clock datetime.now() reads
    ckpts,          \* the checkpoints written so far; ckpts[c].src is the
                    \* trial whose runner state checkpoint c holds
    rescales,       \* per job: the reallocations that have succeeded so far
    proc,           \* per caller: the transition it is executing, or the
                    \* exception its transition has raised
    c_pc, c_alloc, c_pgf, c_out,  \* the codec applied on its own
    allocator,      \* the allocator object of a test: its policy and fields
    sched           \* the scheduling cycles of that test and its one job

vars == <<device, trials, runner_trials, live_trials, in_use, now, ckpts,
          rescales, proc, c_pc, c_alloc, c_pgf, c_out, allocator, sched>>

\* ------------------------------------------------------------------ bounds

\* Longest allocation handed to the codec on its own.
MaxCodecLen == 3
\* Jobs submitted to the experiment.
NumJobs == 2
\* Trial objects constructed in a run.
MaxTrials == 4
\* Checkpoints written in a run.
MaxCkpts == 2
\* config._JOB_MAX_REPLICAS, scaled down.
JobMaxReplicas == 2
\* config._JOB_MIN_REPLICAS
JobMinReplicas == 1
\* Scheduling cycles a test is followed for.
MaxCycles == 8
\* NUM_CPUS_CLUSTER of the scheduler tests: the CPUs of the one-node cluster.
NUM_CPUS_CLUSTER == 5

\* ----------------------------------------------------------------- strings
\* A string is a sequence of one-character strings.

NODE == <<"n", "o", "d", "e">>
CPU == <<"C", "P", "U">>
GPU == <<"G", "P", "U">>
COLON == ":"

\* str.startswith(prefix)
StartsWith(s, prefix) ==
    /\ Len(s) >= Len(prefix)
    /\ SubSeq(s, 1, Len(prefix)) = prefix

\* Index of the first separator in s, 0 when there is none.
RECURSIVE FindSep(_, _, _)
FindSep(s, sep, i) ==
    IF i > Len(s) THEN 0
    ELSE IF s[i] = sep THEN i
    ELSE FindSep(s, sep, i + 1)

\* str.split(sep): the pieces between the separators, in order.
RECURSIVE Split(_, _)
Split(s, sep) ==
    LET i == FindSep(s, sep, 1)
    IN  IF i = 0 THEN <<s>>
        ELSE <<SubSeq(s, 1, i - 1)>> \o Split(SubSeq(s, i + 1, Len(s)), sep)

\* f"node:{node}"
NodeKey(node) == NODE \o <<COLON>> \o node

\* [x] * n
RECURSIVE Repeat(_, _)
Repeat(x, n) == IF n <= 0 THEN <<>> ELSE <<x>> \o Repeat(x, n - 1)

\* Concatenation of a sequence of sequences.
RECURSIVE Flatten(_)
Flatten(ss) == IF ss = <<>> THEN <<>> ELSE Head(ss) \o Flatten(Tail(ss))

\* Number of occurrences of x in the sequence s.
Occurrences(s, x) == Cardinality({i \in DOMAIN s : s[i] = x})

\* ------------------------------------------------------------------- codec
\* A bundle is a Python dict: here the sequence of its items in insertion
\* order, [k |-> key, v |-> quantity].  Quantities are in thousandths, so
\* 0.01 is 10, 0.001 is 1 and a device count n is n * 1000; int(v) is
\* v \div 1000.

DictKeys(d) == {d[i].k : i \in DOMAIN d}

\* d[key] = value on an insertion-ordered dict.
DictSet(d, key, value) ==
    IF key \in DictKeys(d)
    THEN [i \in DOMAIN d |-> IF d[i].k = key THEN [k |-> key, v |-> value] ELSE d[i]]
    ELSE Append(d, [k |-> key, v |-> value])

\* bundle.get(key, 0)
DictGet(d, key) ==
    IF key \in DictKeys(d)
    THEN (CHOOSE e \in {d[i] : i \in DOMAIN d} : e.k = key).v
    ELSE 0

IntOf(v) == v \div 1000

\* Faulty variant of Counter: the occurrences of a node are not merged.
CounterUnmerged(alloc) == [i \in DOMAIN alloc |-> [node |-> alloc[i], count |-> 1]]

\* collections.Counter(alloc): the distinct nodes in order of first
\* occurrence, each with its number of occurrences.
RECURSIVE Counter(_)
Counter(alloc) ==
    IF alloc = <<>> THEN <<>>
    ELSE LET rest == Counter(SubSeq(alloc, 1, Len(alloc) - 1))
             x == alloc[Len(alloc)]
         IN  IF \E i \in DOMAIN rest : rest[i].node = x
             THEN [i \in DOMAIN rest |->
                     IF rest[i].node = x
                     THEN [node |-> x, count |-> rest[i].count + 1]
                     ELSE rest[i]]
             ELSE Append(rest, [node |-> x, count |-> 1])

\* Faulty variant of _construct_bundle: one device too many is reserved.
construct_bundle_extra(node, device_count, dev) ==
    LET resources == DictSet(DictSet(<<>>, dev, (device_count + 1) * 1000),
                             NodeKey(node), 10)
    IN  IF dev = GPU
        THEN DictSet(resources, CPU, (device_count + 1) * 1000)
        ELSE resources

\* _construct_bundle(node, device_count)
construct_bundle(node, device_count, dev) ==
    LET resources == DictSet(DictSet(<<>>, dev, device_count * 1000),
                             NodeKey(node), 10)
    IN  IF dev = GPU
        THEN DictSet(resources, CPU, device_count * 1000)
        ELSE resources

\* The control-plane bundle {"CPU": 0.01}.
ControlBundle == <<[k |-> CPU, v |-> 10]>>

\* Faulty variant of allocation_to_pgf: the node bundles are appended in the
\* reverse of the Counter's order.
allocation_to_pgf_reversed(alloc, dev) ==
    LET c == Counter(alloc)
    IN  <<ControlBundle>> \o
        [i \in DOMAIN c |->
            construct_bundle(c[Len(c) + 1 - i].node, c[Len(c) + 1 - i].count, dev)]

\* allocation_to_pgf(alloc); its assert len(alloc) > 0 is the caller's guard
\* AllocationToPgfRaises.
allocation_to_pgf(alloc, dev) ==
    LET c == Counter(alloc)
    IN  <<ControlBundle>> \o
        [i \in DOMAIN c |-> construct_bundle(c[i].node, c[i].count, dev)]

AllocationToPgfRaises(alloc) == Len(alloc) = 0

\* Faulty variant of NodeKeysOf: the part of the key before the separator
\* is taken for the node.
NodeKeysOfPrefix(bundle) ==
    LET idx == {i \in DOMAIN bundle : StartsWith(bundle[i].k, NODE)}
        F[i \in 0..Len(bundle)] ==
            IF i = 0 THEN <<>>
            ELSE IF i \in idx THEN Append(F[i - 1], Split(bundle[i].k, COLON)[1])
            ELSE F[i - 1]
    IN  F[Len(bundle)]

\* The items of a bundle selected and mapped as a list comprehension does.
NodeKeysOf(bundle) ==
    LET idx == {i \in DOMAIN bundle : StartsWith(bundle[i].k, NODE)}
        F[i \in 0..Len(bundle)] ==
            IF i = 0 THEN <<>>
            ELSE IF i \in idx THEN Append(F[i - 1], Split(bundle[i].k, COLON)[2])
            ELSE F[i - 1]
    IN  F[Len(bundle)]

NumDevicesOf(bundle, dev) ==
    LET F[i \in 0..Len(bundle)] ==
            IF i = 0 THEN <<>>
            ELSE IF bundle[i].k = dev THEN Append(F[i - 1], IntOf(bundle[i].v))
            ELSE F[i - 1]
    IN  F[Len(bundle)]

Min2(a, b) == IF a <= b THEN a ELSE b

\* pgf_to_allocation(pgf)
pgf_to_allocation(pgf, dev) ==
    LET bundles == Tail(pgf)
        node_keys == Flatten([i \in DOMAIN bundles |-> NodeKeysOf(bundles[i])])
        num_devices == Flatten([i \in DOMAIN bundles |-> NumDevicesOf(bundles[i], dev)])
        n == Min2(Len(node_keys), Len(num_devices))
    IN  Flatten([i \in 1..n |-> Repeat(node_keys[i], num_devices[i])])

\* _pgf_to_num_replicas(pgf)
RECURSIVE SumSeq(_)
SumSeq(s) == IF s = <<>> THEN 0 ELSE Head(s) + SumSeq(Tail(s))

pgf_to_num_replicas(pgf, dev) ==
    LET bundles == Tail(pgf)
    IN  SumSeq([i \in DOMAIN bundles |-> IntOf(DictGet(bundles[i], dev))])

\* --------------------------------------------------------------- lifecycle

None == 0
Procs == {1, 2}
Jobs == 1..NumJobs
Nodes == {<<"a">>}

Range(s) == {s[i] : i \in DOMAIN s}

RECURSIVE SeqsUpTo(_, _)
SeqsUpTo(S, n) ==
    IF n = 0 THEN {<<>>}
    ELSE LET shorter == SeqsUpTo(S, n - 1)
         IN  shorter \cup {Append(s, x) : s \in {t \in shorter : Len(t) = n - 1}, x \in S}

\* What an Allocator may decide for one job (section 4.1 of the design): the
\* empty allocation, or node-units numbering within the job's replica bounds.
AllocatorOutputs ==
    {a \in SeqsUpTo(Nodes, JobMaxReplicas) :
        Len(a) = 0 \/ (JobMinReplicas <= Len(a) /\ Len(a) <= JobMaxReplicas)}

\* PlacementGroupFactory([{"CPU": 0.001}])
PlaceholderPgf == << <<[k |-> CPU, v |-> 1]>> >>

\* The resources of a Trial that Tune built itself (one CPU).
DefaultPgf == << <<[k |-> CPU, v |-> 1000]>> >>

\* A Trial as Tune submits it: not an AdaptDLTrial, never run.
PlainTrial(j) ==
    [job_id |-> j, adaptdl |-> FALSE, rescale_count |-> 0,
     creation_timestamp |-> None, restore_path |-> None, pgf |-> DefaultPgf,
     runner |-> FALSE, stopped |-> FALSE,
     \* history, not fields of the object:
     paused |-> FALSE, pause_ckpt |-> None, parent |-> None,
     copy_state |-> FALSE, src_live |-> FALSE]

IdleProc == [pc |-> "idle", op |-> "none", trial |-> None, new_allocation |-> <<>>,
             copy_state |-> FALSE, checkpoint_path |-> None, new_trial |-> None,
             raised |-> "none", before |-> None]

Registered(t) == t \in Range(runner_trials)

\* AdaptDLJobMixin.__init__: the creation timestamp of a new job object.
MixinCreationTimestamp(kwargs_timestamp, clock) == clock

\* Faulty variant of allocation: the factory is decoded whether or not the
\* placement group is in use.
allocation_always_decoded(t) == pgf_to_allocation(trials[t].pgf, device)

\* AdaptDLJobMixin.allocation
allocation(t) ==
    IF t \in in_use THEN pgf_to_allocation(trials[t].pgf, device) ELSE <<>>

codec == <<c_pc, c_alloc, c_pgf, c_out>>

policy == <<allocator, sched>>

\* No allocator is at work.
NoAllocator ==
    [policy |-> "off", node_cpus |-> 0, avail_cpus |-> 0, cur_cpus |-> 0,
     toggle |-> FALSE]

\* The one job of a test before the first scheduling cycle: one replica,
\* running, nothing decided yet.
NoSched ==
    [cycle |-> 0, replicas |-> 1, paused |-> FALSE, decided |-> <<>>,
     prev |-> <<>>, seen |-> 0, clones |-> 0, pauses |-> 0, lagged |-> FALSE]

JobOf(t) == trials[t].job_id

InFlight(p) == proc[p].pc # "idle"

\* Faulty variant of TransitionLockFree: a transition begins whatever is in
\* flight.
TransitionLockIgnored(t) == TRUE

\* The serialization of transitions (section 5 of the design: a job never
\* has two transitions in flight).  The callers of create_from and pause,
\* the callbacks of AdaptDLScheduler, run one at a time on Tune's driver
\* loop, which also runs the host runtime's own steps: no transition of any
\* job is in flight when the next one, for trial t, begins.
TransitionLockFree(t) ==
    \A q \in Procs : ~InFlight(q)

Capturing == {q \in Procs : proc[q].pc \in {"cf_checkpoint", "ps_checkpoint"}}
Cloning == {q \in Procs : proc[q].pc \in {"cf_checkpoint", "cf_clone"}}

\* The transition returns to its caller.
Return(p) == proc' = [proc EXCEPT ![p] = IdleProc]

\* The transition raises: the exception is on its way to the caller.
Raise(p, exception) ==
    proc' = [proc EXCEPT ![p].pc = "raised", ![p].raised = exception]

Goto(p, pc) == proc' = [proc EXCEPT ![p].pc = pc]

\* The first idle caller takes the next request.
NextCaller(p) == ~InFlight(p) /\ \A q \in Procs : q < p => InFlight(q)

\* --- AdaptDLTrial.create_from

\* Faulty variant of create_from: the process group of the source is torn
\* down before its state is asked for.
create_from_stop_first(p, t, new_allocation, copy_state) ==
    /\ NextCaller(p)
    /\ Registered(t)
    /\ TransitionLockFree(t)
    /\ Len(trials) + Cardinality(Cloning) < MaxTrials
    /\ Len(ckpts) + Cardinality(Capturing) < MaxCkpts
    /\ proc' = [proc EXCEPT ![p] =
                  [pc |-> "cf_checkpoint", op |-> "create_from", trial |-> t,
                   new_allocation |-> new_allocation, copy_state |-> copy_state,
                   checkpoint_path |-> None, new_trial |-> None,
                   raised |-> "none", before |-> trials[t]]]
    /\ trials' = [trials EXCEPT ![t].stopped = TRUE, ![t].runner = FALSE]
    /\ UNCHANGED <<device, runner_trials, live_trials, in_use, now, ckpts, rescales, codec, policy>>

\* create_from is called: trial t of the runner, a target allocation.
create_from(p, t, new_allocation, copy_state) ==
    /\ NextCaller(p)
    /\ Registered(t)
    /\ TransitionLockFree(t)
    /\ Len(trials) + Cardinality(Cloning) < MaxTrials
    /\ Len(ckpts) + Cardinality(Capturing) < MaxCkpts
    /\ proc' = [proc EXCEPT ![p] =
                  [pc |-> "cf_checkpoint", op |-> "create_from", trial |-> t,
                   new_allocation |-> new_allocation, copy_state |-> copy_state,
                   checkpoint_path |-> None, new_trial |-> None,
                   raised |-> "none", before |-> trials[t]]]
    /\ UNCHANGED <<device, trials, runner_trials, live_trials, in_use, now, ckpts, rescales, codec, policy>>

\* Faulty variant of CheckpointPath: the checkpoint of a trial without a
\* runner is dropped.
CheckpointPathNone(copy_state, trial) == None

\* The checkpoint path create_from hands to the clone when it captures
\* nothing itself: the source's restore_path when copying the state of a
\* trial without a runner, and None when not copying.
CheckpointPath(copy_state, trial) ==
    IF copy_state THEN trial.restore_path ELSE None

\* Lines 136-150: the checkpoint of the source.  ray.get(save_all_states)
\* and create_from_pickle may raise.
CfCheckpoint(p) ==
    /\ proc[p].pc = "cf_checkpoint"
    /\ LET t == proc[p].trial
       IN  IF proc[p].copy_state /\ trials[t].runner
           THEN \/ /\ ckpts' = Append(ckpts, [src |-> t])
                   /\ proc' = [proc EXCEPT ![p].checkpoint_path = Len(ckpts) + 1,
                                           ![p].pc = "cf_clone"]
                \/ /\ Raise(p, "capture_failed")
                   /\ UNCHANGED ckpts
           ELSE /\ proc' = [proc EXCEPT
                              ![p].checkpoint_path =
                                  CheckpointPath(proc[p].copy_state, trials[t]),
                              ![p].pc = "cf_clone"]
                /\ UNCHANGED ckpts
    /\ UNCHANGED <<device, trials, runner_trials, live_trials, in_use, now, rescales, codec, policy>>

\* Faulty variant of RescaleCountOf: the clone keeps the count of its source.
RescaleCountKept(trial) == IF trial.adaptdl THEN trial.rescale_count ELSE 0

\* Lines 105-112: the rescale count of the clone.
RescaleCountOf(trial) ==
    IF trial.adaptdl THEN trial.rescale_count + 1 ELSE 0

\* AdaptDLTrial._clone_from: the new trial object.
clone_from(trial, alloc, restore_path, clock) ==
    LET pgf == allocation_to_pgf(alloc, device)
        rescale_count == RescaleCountOf(trial)
        creation_timestamp == IF trial.adaptdl THEN trial.creation_timestamp ELSE clock
    IN  [job_id |-> trial.job_id, adaptdl |-> TRUE,
         rescale_count |-> rescale_count,
         creation_timestamp |-> MixinCreationTimestamp(creation_timestamp, clock),
         restore_path |-> restore_path, pgf |-> pgf,
         runner |-> FALSE, stopped |-> FALSE,
         paused |-> FALSE, pause_ckpt |-> None, parent |-> None,
         copy_state |-> FALSE, src_live |-> FALSE]

\* Faulty variant of CloneRaises: no allocation is refused.
CloneRaisesNever(alloc) == FALSE

\* _clone_from raises on an empty allocation (allocation_to_pgf's assert,
\* or assert num_workers > 0).
CloneRaises(alloc) ==
    \/ AllocationToPgfRaises(alloc)
    \/ pgf_to_num_replicas(allocation_to_pgf(alloc, device), device) <= 0

\* Line 153: cls._clone_from(trial, new_allocation, restore_path).  The
\* constructors it calls (PlacementGroupFactory, Trial) may raise too.  The
\* clock has moved on each time a constructor reads it.
CfClone(p) ==
    /\ proc[p].pc = "cf_clone"
    /\ LET t == proc[p].trial
       IN  IF CloneRaises(proc[p].new_allocation)
           THEN /\ Raise(p, "clone_failed")
                /\ UNCHANGED <<trials, now>>
           ELSE \/ /\ now' = now + 1
                   /\ trials' = Append(trials,
                         [clone_from(trials[t], proc[p].new_allocation,
                                     proc[p].checkpoint_path, now)
                            EXCEPT !.parent = t,
                                   !.copy_state = proc[p].copy_state,
                                   !.src_live = trials[t].runner])
                   /\ proc' = [proc EXCEPT ![p].new_trial = Len(trials) + 1,
                                           ![p].pc = "cf_stop"]
                \/ /\ Raise(p, "clone_failed")
                   /\ UNCHANGED <<trials, now>>
    /\ UNCHANGED <<device, runner_trials, live_trials, in_use, ckpts, rescales, codec, policy>>

\* --- AdaptDLTrial._requeue

\* trial_executor.stop_trial(old_trial): the old process group is torn down.
RequeueStop(ts, old) == [ts EXCEPT ![old].stopped = TRUE, ![old].runner = FALSE]

\* Faulty variant of RequeuePop: the old trial is left in the list.
RequeuePopNone(rt, old) == rt

\* _trials.pop(_trials.index(old_trial)): the first occurrence goes.
RequeuePop(rt, old) ==
    LET i == CHOOSE i \in DOMAIN rt : rt[i] = old /\ \A k \in 1..(i - 1) : rt[k] # old
    IN  SubSeq(rt, 1, i - 1) \o SubSeq(rt, i + 1, Len(rt))

\* Faulty variant of RequeueAppend: the new trial is appended twice.
RequeueAppendTwice(rt, new) == Append(Append(rt, new), new)

\* _trials.append(self)
RequeueAppend(rt, new) == Append(rt, new)

\* _live_trials.add(self)
RequeueLive(live, new) == live \cup {new}

CfStop(p) ==
    /\ proc[p].pc = "cf_stop"
    /\ trials' = RequeueStop(trials, proc[p].trial)
    /\ in_use' = in_use \ {proc[p].trial}
    /\ Goto(p, "cf_replace")
    /\ UNCHANGED <<device, runner_trials, live_trials, now, ckpts, rescales, codec, policy>>

\* Lines 78 and 80: the old trial leaves _trials and the new one enters it.
\* The runner reads _trials from the thread that runs create_from, and no
\* call leaves that thread between the two statements, so they are one step
\* for every reader. list.index raises ValueError when the old trial is not
\* in the list. A new trial registered in place of an AdaptDLTrial is a
\* reallocation of the job that succeeded.
CfReplace(p) ==
    /\ proc[p].pc = "cf_replace"
    /\ IF Registered(proc[p].trial)
       THEN /\ runner_trials' = RequeueAppend(RequeuePop(runner_trials, proc[p].trial),
                                              proc[p].new_trial)
            /\ rescales' = [rescales EXCEPT ![JobOf(proc[p].trial)] =
                               IF trials[proc[p].trial].adaptdl THEN @ + 1 ELSE @]
            /\ Goto(p, "cf_live")
       ELSE /\ Raise(p, "not_registered")
            /\ UNCHANGED <<runner_trials, rescales>>
    /\ UNCHANGED <<device, trials, live_trials, in_use, now, ckpts, codec, policy>>

\* _live_trials.add(self), then create_from returns the new trial.
CfLive(p) ==
    /\ proc[p].pc = "cf_live"
    /\ live_trials' = RequeueLive(live_trials, proc[p].new_trial)
    /\ Return(p)
    /\ UNCHANGED <<device, trials, runner_trials, in_use, now, ckpts, rescales, codec, policy>>

\* --- AdaptDLTrial.pause

\* Faulty variant of pause: the placement group factory is replaced before
\* the checkpoint is taken.
pause_release_first(p, t) ==
    /\ NextCaller(p)
    /\ Registered(t)
    /\ trials[t].adaptdl
    /\ TransitionLockFree(t)
    /\ Len(ckpts) + Cardinality(Capturing) < MaxCkpts
    /\ proc' = [proc EXCEPT ![p] =
                  [pc |-> "ps_checkpoint", op |-> "pause", trial |-> t,
                   new_allocation |-> <<>>, copy_state |-> FALSE,
                   checkpoint_path |-> None, new_trial |-> None,
                   raised |-> "none", before |-> trials[t]]]
    /\ trials' = [trials EXCEPT ![t].pgf = PlaceholderPgf]
    /\ UNCHANGED <<device, runner_trials, live_trials, in_use, now, ckpts, rescales, codec, policy>>

\* pause is called on trial t of the runner.
pause(p, t) ==
    /\ NextCaller(p)
    /\ Registered(t)
    /\ trials[t].adaptdl
    /\ TransitionLockFree(t)
    /\ Len(ckpts) + Cardinality(Capturing) < MaxCkpts
    /\ proc' = [proc EXCEPT ![p] =
                  [pc |-> "ps_checkpoint", op |-> "pause", trial |-> t,
                   new_allocation |-> <<>>, copy_state |-> FALSE,
                   checkpoint_path |-> None, new_trial |-> None,
                   raised |-> "none", before |-> trials[t]]]
    /\ UNCHANGED <<device, trials, runner_trials, live_trials, in_use, now, ckpts, rescales, codec, policy>>

\* Lines 167-174: assert self.runner is not None, then the checkpoint, which
\* may raise.
PsCheckpoint(p) ==
    /\ proc[p].pc = "ps_checkpoint"
    /\ LET t == proc[p].trial
       IN  IF ~trials[t].runner
           THEN /\ Raise(p, "no_runner")
                /\ UNCHANGED ckpts
           ELSE \/ /\ ckpts' = Append(ckpts, [src |-> t])
                   /\ proc' = [proc EXCEPT ![p].checkpoint_path = Len(ckpts) + 1,
                                           ![p].pc = "ps_restore_path"]
                \/ /\ Raise(p, "capture_failed")
                   /\ UNCHANGED ckpts
    /\ UNCHANGED <<device, trials, runner_trials, live_trials, in_use, now, rescales, codec, policy>>

\* self.restore_path = checkpoint_path
PauseRestorePath(trial, checkpoint_path) ==
    [trial EXCEPT !.restore_path = checkpoint_path]

\* Faulty variant of PausePgf: the paused trial keeps its factory.
PausePgfKept(trial) == trial

\* self.placement_group_factory = PlacementGroupFactory([{"CPU": 0.001}])
PausePgf(trial) == [trial EXCEPT !.pgf = PlaceholderPgf]

PsRestorePath(p) ==
    /\ proc[p].pc = "ps_restore_path"
    /\ trials' = [trials EXCEPT ![proc[p].trial] =
                    PauseRestorePath(@, proc[p].checkpoint_path)]
    /\ Goto(p, "ps_pgf")
    /\ UNCHANGED <<device, runner_trials, live_trials, in_use, now, ckpts, rescales, codec, policy>>

\* Faulty variant of PsPgf: the factory is replaced right after the capture,
\* before restore_path is set.
PsPgfEarly(p) ==
    /\ proc[p].pc = "ps_restore_path"
    /\ trials' = [trials EXCEPT ![proc[p].trial] = PausePgf(@)]
    /\ Goto(p, "ps_reconcile")
    /\ UNCHANGED <<device, runner_trials, live_trials, in_use, now, ckpts, rescales, codec, policy>>

PsPgf(p) ==
    /\ proc[p].pc = "ps_pgf"
    /\ trials' = [trials EXCEPT ![proc[p].trial] = PausePgf(@)]
    /\ Goto(p, "ps_reconcile")
    /\ UNCHANGED <<device, runner_trials, live_trials, in_use, now, ckpts, rescales, codec, policy>>

\* _pg_manager.reconcile_placement_groups([self]), then pause returns.  When
\* the host runtime reclaims the placement group is left open by the design.
PsReconcile(p) ==
    /\ proc[p].pc = "ps_reconcile"
    /\ \E reclaimed \in BOOLEAN :
         in_use' = IF reclaimed THEN in_use \ {proc[p].trial} ELSE in_use
    /\ trials' = [trials EXCEPT ![proc[p].trial].paused = TRUE,
                                ![proc[p].trial].pause_ckpt = proc[p].checkpoint_path]
    /\ Return(p)
    /\ UNCHANGED <<device, runner_trials, live_trials, now, ckpts, rescales, codec, policy>>

\* --- the host runtime

\* Tune starts a pending AdaptDLTrial: its process group comes up on its
\* placement group and restores from restore_path.
TuneStartTrial(t) ==
    /\ Registered(t)
    /\ trials[t].adaptdl
    /\ ~trials[t].runner /\ ~trials[t].stopped /\ ~trials[t].paused
    /\ TransitionLockFree(t)
    /\ trials' = [trials EXCEPT ![t].runner = TRUE]
    /\ in_use' = in_use \cup {t}
    /\ UNCHANGED <<device, runner_trials, live_trials, now, ckpts, rescales, proc, codec, policy>>

\* Tune tears down the process group of a trial that pause() has paused.
TunePauseTrial(t) ==
    /\ Registered(t)
    /\ trials[t].paused /\ trials[t].runner
    /\ TransitionLockFree(t)
    /\ trials' = [trials EXCEPT ![t].runner = FALSE]
    /\ in_use' = in_use \ {t}
    /\ UNCHANGED <<device, runner_trials, live_trials, now, ckpts, rescales, proc, codec, policy>>

\* The exception reaches the caller of create_from or pause.
Raised(p) ==
    /\ proc[p].pc = "raised"
    /\ Return(p)
    /\ UNCHANGED <<device, trials, runner_trials, live_trials, in_use, now, ckpts, rescales, codec, policy>>

\* ---------------------------------------------------------- specifications

InitLifecycle ==
    /\ trials = [j \in Jobs |-> PlainTrial(j)]
    /\ runner_trials = [j \in Jobs |-> j]
    /\ live_trials = Jobs
    /\ in_use = {}
    /\ now = 1
    /\ ckpts = <<>>
    /\ rescales = [j \in Jobs |-> 0]
    /\ proc = [p \in Procs |-> IdleProc]

Init ==
    /\ device \in {CPU, GPU}
    /\ InitLifecycle
    /\ c_pc = "off" /\ c_alloc = <<>> /\ c_pgf = <<>> /\ c_out = <<>>
    /\ allocator = NoAllocator /\ sched = NoSched

Next ==
    \/ \E p \in Procs, t \in DOMAIN trials, a \in AllocatorOutputs, cs \in BOOLEAN :
          create_from(p, t, a, cs)
    \/ \E p \in Procs : CfCheckpoint(p)
    \/ \E p \in Procs : CfClone(p)
    \/ \E p \in Procs : CfStop(p)
    \/ \E p \in Procs : CfReplace(p)
    \/ \E p \in Procs : CfLive(p)
    \/ \E p \in Procs, t \in DOMAIN trials : pause(p, t)
    \/ \E p \in Procs : PsCheckpoint(p)
    \/ \E p \in Procs : PsRestorePath(p)
    \/ \E p \in Procs : PsPgf(p)
    \/ \E p \in Procs : PsReconcile(p)
    \/ \E p \in Procs : Raised(p)
    \/ \E t \in DOMAIN trials : TuneStartTrial(t)
    \/ \E t \in DOMAIN trials : TunePauseTrial(t)

Spec == Init /\ [][Next]_vars

\* --- the codec on its own

\* Node identifiers are the addresses Ray names its per-node resource by
\* ("node:<address>"); an address holds no colon.
CodecNodeIds == {<<"a">>, <<"b">>, <<"a", "b">>, NODE}
CodecInputs == SeqsUpTo(CodecNodeIds, MaxCodecLen) \ {<<>>}

CodecEncode ==
    /\ c_pc = "input"
    /\ c_pgf' = allocation_to_pgf(c_alloc, device)
    /\ c_pc' = "encoded"
    /\ UNCHANGED <<device, trials, runner_trials, live_trials, in_use, now, ckpts,
                   rescales, proc, c_alloc, c_out, policy>>

CodecDecode ==
    /\ c_pc = "encoded"
    /\ c_out' = pgf_to_allocation(c_pgf, device)
    /\ c_pc' = "decoded"
    /\ UNCHANGED <<device, trials, runner_trials, live_trials, in_use, now, ckpts,
                   rescales, proc, c_alloc, c_pgf, policy>>

InitCodec ==
    /\ device \in {CPU, GPU}
    /\ InitLifecycle
    /\ c_pc = "input" /\ c_alloc \in CodecInputs /\ c_pgf = <<>> /\ c_out = <<>>
    /\ allocator = NoAllocator /\ sched = NoSched

NextCodec == CodecEncode \/ CodecDecode

SpecCodec == InitCodec /\ [][NextCodec]_vars

\* --- the test allocators and the scheduling cycles that call them

\* The one node of the test cluster, list(self._node_infos)[0].
FirstNode == CHOOSE n \in Nodes : TRUE

\* The clusters followed: ray.init(num_cpus=...) with at least one CPU left
\* once one is reserved for the Trainable.
ClusterCpus == 2..NUM_CPUS_CLUSTER

\* default_allocation(num_devices): that many devices of the first node.
default_allocation(num_devices) == Repeat(FirstNode, num_devices)

\* IncrAllocator.__init__ on a cluster whose first node has cpus CPUs.
IncrAllocatorInit(cpus) ==
    [policy |-> "incr", node_cpus |-> cpus, avail_cpus |-> cpus - 1,
     cur_cpus |-> 1, toggle |-> FALSE]

\* PausingAllocator.__init__
PausingAllocatorInit(cpus) ==
    [policy |-> "pausing", node_cpus |-> cpus, avail_cpus |-> cpus - 1,
     cur_cpus |-> 1, toggle |-> TRUE]

\* Faulty variant of IncrNextCpus: the size grows whatever the job's count.
IncrNextCpusAlways(a, num_replicas) == Min2(a.cur_cpus + 1, a.avail_cpus)

\* IncrAllocator.allocate, lines 43-44: _cur_cpus after the call.
IncrNextCpus(a, num_replicas) ==
    IF num_replicas = a.cur_cpus
    THEN Min2(a.cur_cpus + 1, a.avail_cpus)
    ELSE a.cur_cpus

\* Faulty variant of PausingDecision: the toggle is not consulted.
PausingDecisionStuck(a) == default_allocation(a.cur_cpus)

\* PausingAllocator.allocate, lines 87-92: the allocation returned.
PausingDecision(a) ==
    IF a.toggle THEN default_allocation(a.cur_cpus) ELSE <<>>

\* The decision d of the last cycle is what the job runs with.
InSync(sc) ==
    IF sc.decided = <<>> THEN sc.paused
    ELSE ~sc.paused /\ Len(sc.decided) = sc.replicas

\* A scheduling cycle has called allocate, which returned decision d.
Decide(d) ==
    sched' = [sched EXCEPT !.cycle = @ + 1,
                           !.prev = sched.decided,
                           !.decided = d,
                           !.seen = sched.replicas,
                           !.lagged = @ \/ (sched.cycle > 0 /\ ~InSync(sched))]

\* A cycle under IncrAllocator: allocate(jobs) reads jobs[0]._num_replicas.
IncrCycle ==
    /\ allocator.policy = "incr"
    /\ sched.cycle < MaxCycles
    /\ LET cur == IncrNextCpus(allocator, sched.replicas)
       IN  /\ allocator' = [allocator EXCEPT !.cur_cpus = cur]
           /\ Decide(default_allocation(cur))
    /\ UNCHANGED <<device, trials, runner_trials, live_trials, in_use, now, ckpts,
                   rescales, proc, codec>>

\* A cycle under PausingAllocator.
PausingCycle ==
    /\ allocator.policy = "pausing"
    /\ sched.cycle < MaxCycles
    /\ allocator' = [allocator EXCEPT !.toggle = ~@]
    /\ Decide(PausingDecision(allocator))
    /\ UNCHANGED <<device, trials, runner_trials, live_trials, in_use, now, ckpts,
                   rescales, proc, codec>>

\* _num_replicas of the trial _clone_from makes for an allocation: the
\* num_workers its trainable class is created with.
NumReplicasOfClone(alloc) ==
    pgf_to_num_replicas(allocation_to_pgf(alloc, device), device)

\* The scheduler applies a non-empty decision the job does not run with:
\* one create_from with the decided allocation.
SchedClone ==
    /\ sched.cycle > 0
    /\ sched.decided # <<>>
    /\ ~InSync(sched)
    /\ sched' = [sched EXCEPT !.replicas = NumReplicasOfClone(sched.decided),
                              !.paused = FALSE,
                              !.clones = @ + 1]
    /\ UNCHANGED <<device, trials, runner_trials, live_trials, in_use, now, ckpts,
                   rescales, proc, codec, allocator>>

\* The scheduler applies an empty decision to a running job: one pause().
SchedPause ==
    /\ sched.cycle > 0
    /\ sched.decided = <<>>
    /\ ~InSync(sched)
    /\ sched' = [sched EXCEPT !.paused = TRUE, !.pauses = @ + 1]
    /\ UNCHANGED <<device, trials, runner_trials, live_trials, in_use, now, ckpts,
                   rescales, proc, codec, allocator>>

InitSched ==
    /\ device \in {CPU, GPU}
    /\ InitLifecycle
    /\ c_pc = "off" /\ c_alloc = <<>> /\ c_pgf = <<>> /\ c_out = <<>>
    /\ \E cpus \in ClusterCpus :
         allocator \in {IncrAllocatorInit(cpus), PausingAllocatorInit(cpus)}
    /\ sched = NoSched

NextSched == IncrCycle \/ PausingCycle \/ SchedClone \/ SchedPause

SpecSched == InitSched /\ [][NextSched]_vars

\* ------------------------------------------------------------------ claims

AllIdle == \A p \in Procs : ~InFlight(p)

\* The records of job j in the runner's trial list, counted with repeats.
RegisteredCount(j) ==
    Cardinality({i \in DOMAIN runner_trials : JobOf(runner_trials[i]) = j})

\* Trial t is the clone that create_from made of an AdaptDLTrial.
CloneOfAdaptDL(t) ==
    /\ trials[t].parent # None
    /\ trials[trials[t].parent].adaptdl

\* C1: the replacement of a job's record in the runner's trial list is
\* atomic.  At every point of a run, during a transition, after it, and
\* after a transition that raised, exactly one record of each job is
\* registered; a clone and the trial it was cloned from are never
\* registered together.
C1_ReplaceIsAtomic ==
    /\ \A j \in Jobs : RegisteredCount(j) = 1
    /\ \A t \in DOMAIN trials :
         trials[t].parent # None => ~(Registered(t) /\ Registered(trials[t].parent))

\* A running AdaptDLTrial has been replaced by its clone and create_from
\* has returned.
C1_Witness ==
    /\ AllIdle
    /\ \E t \in DOMAIN trials :
         /\ CloneOfAdaptDL(t) /\ Registered(t)
         /\ trials[t].src_live
         /\ trials[trials[t].parent].stopped

\* C3: a clone of an AdaptDLTrial has the job_id of its source and a
\* rescale_count one greater; the rescale_count of the record registered
\* for a job equals the number of reallocations of the job (clones of an
\* AdaptDLTrial registered in place of their source) that have succeeded.
C3_RescaleCount ==
    /\ \A t \in DOMAIN trials :
         CloneOfAdaptDL(t) =>
             /\ trials[t].job_id = trials[trials[t].parent].job_id
             /\ trials[t].rescale_count = trials[trials[t].parent].rescale_count + 1
    /\ \A t \in DOMAIN trials :
         Registered(t) => trials[t].rescale_count = rescales[JobOf(t)]

\* A job has been reallocated: its registered record, the clone of an
\* AdaptDLTrial, counts 1.
C3_Witness ==
    \E t \in DOMAIN trials :
        /\ Registered(t) /\ CloneOfAdaptDL(t)
        /\ trials[t].rescale_count = 1

\* C4: the clone of an AdaptDLTrial carries the creation_timestamp of its
\* source.
C4_TimestampCarried ==
    \A t \in DOMAIN trials :
        CloneOfAdaptDL(t) =>
            trials[t].creation_timestamp = trials[trials[t].parent].creation_timestamp

\* Trial t resumes a paused trial: it was cloned from a trial that pause()
\* had paused and that had no runner left.
Resumes(t) ==
    /\ trials[t].parent # None
    /\ trials[trials[t].parent].paused
    /\ ~trials[t].src_live
    /\ ~trials[t].paused
    /\ \A p \in Procs : ~(proc[p].op = "pause" /\ proc[p].trial = t)

C6_CaptureFailureKeepsState ==
    \A p \in Procs :
        (proc[p].pc = "raised" /\ proc[p].raised = "capture_failed") =>
            LET t == proc[p].trial
            IN  /\ Registered(t)
                /\ ~trials[t].stopped
                /\ trials[t] = proc[p].before
                /\ proc[p].new_trial = None
                /\ RegisteredCount(JobOf(t)) = 1

\* The capture of a transition has raised.
C6_Witness ==
    \E p \in Procs :
        /\ proc[p].pc = "raised" /\ proc[p].raised = "capture_failed"
        /\ trials[proc[p].trial].runner

\* C7: a registered trial that pause() has paused reports an empty
\* allocation and holds a checkpoint in restore_path.
C7_PausedHoldsCheckpointOnly ==
    \A t \in DOMAIN trials :
        (Registered(t) /\ trials[t].paused) =>
            /\ allocation(t) = <<>>
            /\ trials[t].restore_path # None

\* A paused trial whose placement group the host runtime still reports in
\* use.
C7_Witness ==
    \E t \in DOMAIN trials :
        Registered(t) /\ trials[t].paused /\ t \in in_use

C2_RoundTripKeepsCounts ==
    c_pc = "decoded" =>
        /\ Len(c_out) = Len(c_alloc)
        /\ \A n \in Range(c_alloc) \cup Range(c_out) :
             Occurrences(c_out, n) = Occurrences(c_alloc, n)

\* An allocation with a repeated node between two others came back in
\* another order.
C2_Witness ==
    /\ c_pc = "decoded"
    /\ c_out # c_alloc
    /\ \E n \in Range(c_alloc) : Occurrences(c_alloc, n) = 2

\* C11: the allocation property of an AdaptDLTrial is empty whenever the
\* host runtime reports its placement group as not in use, whatever its
\* factory reserves, and is the allocation decoded from its factory
\* otherwise.
C11_AllocationFollowsInUse ==
    \A t \in DOMAIN trials :
        trials[t].adaptdl =>
            /\ t \notin in_use => allocation(t) = <<>>
            /\ t \in in_use =>
                 allocation(t) = pgf_to_allocation(trials[t].pgf, device)

\* One trial reserves node units that are not in use, another reports the
\* node units of a placement group in use.
C11_Witness ==
    /\ \E t \in DOMAIN trials :
         /\ trials[t].adaptdl /\ Registered(t) /\ t \notin in_use
         /\ pgf_to_allocation(trials[t].pgf, device) # <<>>
    /\ \E u \in DOMAIN trials :
         /\ trials[u].adaptdl /\ u \in in_use
         /\ allocation(u) # <<>>

\* Caller p is inside a create_from with copy_state=True whose source had
\* a runner when the call began.
CopiesLiveState(p) ==
    /\ proc[p].op = "create_from" /\ proc[p].pc # "raised"
    /\ proc[p].copy_state
    /\ proc[p].before.runner

\* C12: in a create_from with copy_state=True on a running source, the old
\* trial is stopped or unregistered only once its state has been captured
\* as a checkpoint and the new trial made to restore from that checkpoint;
\* a clone made this way restores from a checkpoint of its source until it
\* is itself paused.
C12_CaptureBeforeTeardown ==
    /\ \A p \in Procs :
         (/\ CopiesLiveState(p)
          /\ \/ trials[proc[p].trial].stopped
             \/ ~trials[proc[p].trial].runner
             \/ ~Registered(proc[p].trial)) =>
             /\ proc[p].checkpoint_path # None
             /\ ckpts[proc[p].checkpoint_path].src = proc[p].trial
             /\ proc[p].new_trial # None
             /\ trials[proc[p].new_trial].restore_path = proc[p].checkpoint_path
    /\ \A t \in DOMAIN trials :
         (/\ trials[t].parent # None /\ trials[t].copy_state /\ trials[t].src_live
          /\ ~trials[t].paused
          /\ \A p \in Procs : ~(proc[p].op = "pause" /\ proc[p].trial = t)) =>
             /\ trials[t].restore_path # None
             /\ ckpts[trials[t].restore_path].src = trials[t].parent

\* The old trial of such a create_from has been stopped and is about to
\* leave the trial list.
C12_Witness ==
    \E p \in Procs :
        /\ CopiesLiveState(p)
        /\ proc[p].pc = "cf_replace"
        /\ trials[proc[p].trial].stopped

\* The factory pgf reserves a bundle on some node.
NodePinned(pgf) ==
    \E i \in DOMAIN pgf : \E k \in DOMAIN pgf[i] : StartsWith(pgf[i][k].k, NODE)

\* The states of a pause() in flight, in the order of its statements.
PauseInOrder ==
    \A p \in Procs :
        (proc[p].op = "pause" /\ proc[p].pc # "raised") =>
            LET t  == proc[p].trial
                cp == proc[p].checkpoint_path
            IN  /\ proc[p].pc \in {"ps_checkpoint", "ps_restore_path", "ps_pgf"} =>
                     trials[t].pgf = proc[p].before.pgf
                /\ proc[p].pc \in {"ps_restore_path", "ps_pgf", "ps_reconcile"} =>
                     (cp # None /\ ckpts[cp].src = t)
                /\ proc[p].pc \in {"ps_pgf", "ps_reconcile"} =>
                     trials[t].restore_path = cp
                /\ proc[p].pc = "ps_reconcile" => trials[t].pgf = PlaceholderPgf

\* A step in which the placement group of a trial inside pause() stops being
\* in use is the reconcile step, taken with the placeholder in place.
ReclaimAfterSubstitution ==
    \A p \in Procs :
        (/\ proc[p].op = "pause" /\ proc[p].pc # "raised"
         /\ proc[p].trial \in in_use /\ proc[p].trial \notin in_use') =>
            /\ proc[p].pc = "ps_reconcile"
            /\ trials[proc[p].trial].pgf = PlaceholderPgf
            /\ trials[proc[p].trial].restore_path = proc[p].checkpoint_path

\* After pause() the factory of the trial reserves no node and no replica.
PausedPinsNothing ==
    \A t \in DOMAIN trials :
        (trials[t].paused /\ Registered(t)) =>
            /\ ~NodePinned(trials[t].pgf)
            /\ pgf_to_num_replicas(trials[t].pgf, device) = 0

\* C13: pause() replaces the placement-group factory by the placeholder
\* only after the checkpoint has been captured and stored in restore_path,
\* the reclamation of the placement group comes only after that
\* substitution, and after pause() the factory pins no node.
C13_PauseReleasesAfterCapture ==
    /\ [](PauseInOrder /\ PausedPinsNothing)
    /\ [][ReclaimAfterSubstitution]_vars

\* A pause() has reclaimed the placement group of a trial that was in use:
\* the trial is paused, out of use, its runner not yet torn down.
C13_Witness ==
    \E t \in DOMAIN trials :
        /\ Registered(t) /\ trials[t].paused /\ trials[t].runner
        /\ t \notin in_use
        /\ trials[t].pgf = PlaceholderPgf

\* C14: when _clone_from raises inside create_from, be it for an empty
\* target allocation or in the construction of the new trial, the old trial
\* is as it was (registered, not stopped, the one record of its job) and no
\* new record exists; a create_from with an empty target allocation never
\* gets past _clone_from.
C14_CloneFailureKeepsState ==
    /\ \A p \in Procs :
         (proc[p].pc = "raised" /\ proc[p].raised = "clone_failed") =>
             LET t == proc[p].trial
             IN  /\ Registered(t)
                 /\ ~trials[t].stopped
                 /\ trials[t].runner = proc[p].before.runner
                 /\ trials[t].pgf = proc[p].before.pgf
                 /\ proc[p].new_trial = None
                 /\ \A u \in DOMAIN trials : u # t => ~(Registered(u) /\ JobOf(u) = JobOf(t))
    /\ \A p \in Procs :
         (proc[p].op = "create_from" /\ proc[p].new_allocation = <<>>) =>
             /\ proc[p].pc \in {"cf_checkpoint", "cf_clone", "raised"}
             /\ proc[p].new_trial = None

\* A create_from with an empty target allocation on a running trial has
\* raised after the checkpoint was taken.
C14_Witness ==
    \E p \in Procs :
        /\ proc[p].pc = "raised" /\ proc[p].raised = "clone_failed"
        /\ proc[p].new_allocation = <<>>
        /\ proc[p].checkpoint_path # None
        /\ trials[proc[p].trial].runner

\* C15: under IncrAllocator, with one job that starts at one replica and
\* N = _avail_cpus units available, the decided sizes start from 1, never
\* decrease, grow by one exactly when the job's replica count had reached
\* the size decided before and N allows it, hold at N, and every growth the
\* scheduler has applied was one create_from.
C15_IncrementUpToAvailable ==
    (allocator.policy = "incr" /\ sched.cycle >= 1) =>
        LET size == Len(sched.decided)
            last == IF sched.cycle = 1 THEN 1 ELSE Len(sched.prev)
            N    == allocator.avail_cpus
        IN  /\ sched.decided = default_allocation(size)
            /\ 1 <= size /\ size <= N
            /\ last <= size /\ size <= last + 1
            /\ size > last => sched.seen = last
            /\ sched.seen = last => size = Min2(last + 1, N)
            /\ sched.replicas \in {size - 1, size}
            /\ sched.clones = sched.replicas - 1
            /\ sched.pauses = 0 /\ ~sched.paused

\* On the five-CPU cluster of the test the size has grown to 4 through
\* three create_from calls and the next cycle has held it at 4.
C15_Witness ==
    /\ allocator.policy = "incr"
    /\ allocator.node_cpus = NUM_CPUS_CLUSTER
    /\ sched.cycle >= 2
    /\ Len(sched.decided) = NUM_CPUS_CLUSTER - 1
    /\ Len(sched.prev) = NUM_CPUS_CLUSTER - 1
    /\ sched.seen = NUM_CPUS_CLUSTER - 1
    /\ sched.clones = NUM_CPUS_CLUSTER - 2

\* C16: under PausingAllocator the decided allocation alternates between
\* the default allocation (one device of the first node) and the empty
\* one, beginning with the default: cycle n decides the default when n is
\* odd and nothing when n is even, so no two consecutive cycles decide the
\* same.  When the scheduler has applied every decision before the next
\* cycle, n cycles have taken the job through n - 1 transitions, pauses and
\* resumes in turn, the last of them possibly still to be applied.
C16_PausingAlternates ==
    (allocator.policy = "pausing" /\ sched.cycle >= 1) =>
        /\ sched.decided = IF sched.cycle % 2 = 1 THEN <<FirstNode>> ELSE <<>>
        /\ sched.cycle >= 2 => sched.prev # sched.decided
        /\ sched.cycle >= 2 => sched.prev = IF sched.cycle % 2 = 1 THEN <<>> ELSE <<FirstNode>>
        /\ sched.pauses - sched.clones \in {0, 1}
        /\ sched.paused = (sched.pauses > sched.clones)
        /\ ~sched.lagged =>
             sched.pauses + sched.clones =
                 IF InSync(sched) THEN sched.cycle - 1 ELSE sched.cycle - 2

\* Four cycles, each applied before the next: the job has been paused,
\* resumed and paused again.
C16_Witness ==
    /\ allocator.policy = "pausing"
    /\ sched.cycle = 4 /\ ~sched.lagged
    /\ sched.paused /\ sched.pauses = 2 /\ sched.clones = 1

\* Bundle b reserves count devices on node n and nothing else: the device
\* quantity, the node key at 0.01, and an equal CPU quantity when the
\* device is GPU.
BundleOf(b, n, count) ==
    /\ DictKeys(b) = {device, NodeKey(n)} \cup (IF device = GPU THEN {CPU} ELSE {})
    /\ Len(b) = Cardinality(DictKeys(b))
    /\ DictGet(b, device) = count * 1000
    /\ DictGet(b, NodeKey(n)) = 10
    /\ device = GPU => DictGet(b, CPU) = count * 1000

\* C17: the factory made for a non-empty allocation begins with the
\* control-plane bundle {"CPU": 0.01}, followed by exactly one bundle for
\* every distinct node of the allocation, which reserves as many devices as
\* the node occurs (and as many CPUs when the device is GPU); the replica
\* count derived from the factory is the length of the allocation.
C17_BundlePerNode ==
    c_pc \in {"encoded", "decoded"} =>
        /\ Len(c_pgf) = 1 + Cardinality(Range(c_alloc))
        /\ c_pgf[1] = <<[k |-> CPU, v |-> 10]>>
        /\ \A n \in Range(c_alloc) :
             Cardinality({i \in 2..Len(c_pgf) :
                            BundleOf(c_pgf[i], n, Occurrences(c_alloc, n))}) = 1
        /\ \A i \in 2..Len(c_pgf) :
             \E n \in Range(c_alloc) : BundleOf(c_pgf[i], n, Occurrences(c_alloc, n))
        /\ pgf_to_num_replicas(c_pgf, device) = Len(c_alloc)

\* A GPU allocation with one node twice and another once has been encoded.
C17_Witness ==
    /\ c_pc = "encoded" /\ device = GPU
    /\ Len(c_alloc) = 3 /\ Len(c_pgf) = 3
    /\ pgf_to_num_replicas(c_pgf, device) = 3

\* pgf_to_allocation(allocation_to_pgf(a)) under the device of the run.
RoundTrip(a) == pgf_to_allocation(allocation_to_pgf(a, device), device)

\* Allocations a and b hold every node the same number of times.
SameCounts(a, b) ==
    /\ Len(a) = Len(b)
    /\ \A n \in Range(a) \cup Range(b) : Occurrences(a, n) = Occurrences(b, n)

\* The distinct nodes of a in the order in which a first names them.
FirstOccurrences(a) ==
    LET F[i \in 0..Len(a)] ==
            IF i = 0 THEN <<>>
            ELSE IF a[i] \in Range(F[i - 1]) THEN F[i - 1]
            ELSE Append(F[i - 1], a[i])
    IN  F[Len(a)]

\* a regrouped: its distinct nodes in order of first occurrence, each as
\* many times as a holds it.
Grouped(a) ==
    LET fo == FirstOccurrences(a)
    IN  Flatten([i \in DOMAIN fo |-> Repeat(fo[i], Occurrences(a, fo[i]))])

\* C18 as stated: two allocations with the same per-node counts come back
\* from the round trip as the same sequence.
C18_RoundTripIgnoresInputOrder ==
    c_pc = "decoded" =>
        \A b \in CodecInputs : SameCounts(b, c_alloc) => RoundTrip(b) = c_out

\* C18, amended: the round trip is a function of the allocation that lists
\* the distinct nodes in the order of their first occurrence, each as many
\* times as it occurs; two allocations with the same per-node counts come
\* back as the same sequence when their nodes first occur in the same
\* order, and the round trip of a result is that result.
C18_RoundTripKeepsFirstOccurrenceOrder ==
    c_pc = "decoded" =>
        /\ c_out = Grouped(c_alloc)
        /\ RoundTrip(c_out) = c_out
        /\ \A b \in CodecInputs :
             (SameCounts(b, c_alloc) /\ FirstOccurrences(b) = FirstOccurrences(c_alloc))
                 => RoundTrip(b) = c_out

\* An allocation of two nodes, not grouped, has come back grouped: another
\* listing of the same nodes in the same first-occurrence order exists.
C18_Witness ==
    /\ c_pc = "decoded"
    /\ Cardinality(Range(c_alloc)) >= 2
    /\ c_out # c_alloc
    /\ \E b \in CodecInputs :
         /\ b # c_alloc /\ SameCounts(b, c_alloc)
         /\ FirstOccurrences(b) = FirstOccurrences(c_alloc)

\* Between transitions every job has one registered record, the one made
\* last for the job, whose rescale_count no record of the job exceeds; a
\* record that was stopped and replaced is not registered.
LatestRecordRegistered ==
    AllIdle =>
        \A j \in Jobs :
            \E t \in DOMAIN trials :
                /\ JobOf(t) = j /\ Registered(t)
                /\ \A u \in DOMAIN trials :
                     JobOf(u) = j =>
                         /\ u <= t
                         /\ trials[u].rescale_count <= trials[t].rescale_count
                         /\ u # t => (~Registered(u) /\ trials[u].stopped)

\* A record enters the trial list only as the new trial of the create_from
\* that made it, in the step in which the record it replaces leaves; the
\* number of registered records does not change.
RegisteredOnlyWhenNew ==
    /\ Len(runner_trials') = Len(runner_trials)
    /\ \A t \in DOMAIN trials :
         (~Registered(t) /\ t \in Range(runner_trials')) =>
             \E p \in Procs :
                 /\ proc[p].pc = "cf_replace" /\ proc[p].new_trial = t
                 /\ Registered(proc[p].trial)
                 /\ proc[p].trial \notin Range(runner_trials')
                 /\ ~trials[t].stopped

\* C19: the trial list holds exactly one record per job, as many records
\* after a rescale as before; after completed transitions it is the record
\* made last, with the highest rescale_count of the job; a retired record
\* is never registered again.
C19_OneLatestRecordPerJob ==
    /\ [](Len(runner_trials) = NumJobs /\ LatestRecordRegistered)
    /\ [][RegisteredOnlyWhenNew]_vars

\* A job has been rescaled twice: two retired records, the third
\* registered.
C19_Witness ==
    /\ AllIdle
    /\ \E t \in DOMAIN trials :
         /\ Registered(t)
         /\ trials[t].parent # None
         /\ trials[trials[t].parent].parent # None
         /\ trials[trials[t].parent].stopped
         /\ trials[trials[trials[t].parent].parent].stopped

\* C20: after completed create_from transitions every record of the
\* runner's live set is in its trial list; a replaced record is not live.
C20_LiveTrialsRegistered ==
    AllIdle => \A t \in live_trials : Registered(t)

====
